---- MODULE Spec2Model ----
\* A model of the pdf-splitters scripts: the bookmark flow (pdf_split_direct.py),
\* the three regex flows (pdf_split_content_based.py,
\* pdf_split_PyMuPDF_only_parts_chapters.py, pdf_split_final.py), the two LLM
\* bookmarking flows (pdf_split_ai.py, pdf_split_langchain+gemini.py) and the
\* filename computations they contain.
\*
\* A string is a sequence of characters. A printable ASCII character is the
\* one-character string itself; any other code point is named "U+XXXX".
EXTENDS Integers, Sequences, FiniteSets, TLC

\* ---------------------------------------------------------------- bounds
MaxPages == 3
MaxBookmarks == 3
MaxLen == 3
MaxDocs == 2

\* ------------------------------------------------------------ characters
AsciiLetters == {"a", "b", "Z", "P", "g", "e"}
AsciiDigits == {"0", "1", "2", "3", "4", "5", "6", "7", "8", "9"}
\* ASCII whitespace as matched by \s: space, tab, newline
AsciiSpaces == {" ", "U+0009", "U+000A"}
AsciiPunct == {"/", "\\", ":", "*", "?", "\"", "<", ">", "|", ".", "U+0000"}
AsciiChars == AsciiLetters \cup AsciiDigits \cup AsciiSpaces \cup AsciiPunct \cup {"_", "-"}
\* e-acute, combining acute accent, no-break space, a CJK ideograph, fi ligature
NonAsciiChars == {"U+00E9", "U+0301", "U+00A0", "U+4E2D", "U+FB01"}

Min(a, b) == IF a < b THEN a ELSE b

RECURSIVE Concat(_)
\* the concatenation of a sequence of strings (by halves, to keep the
\* evaluation shallow on long strings)
Concat(ss) ==
  IF ss = <<>> THEN <<>>
  ELSE IF Len(ss) = 1 THEN ss[1]
  ELSE LET h == Len(ss) \div 2
       IN  Concat(SubSeq(ss, 1, h)) \o Concat(SubSeq(ss, h + 1, Len(ss)))

\* str.replace(old, new) for a one-character old; new is a string
Replace(s, old, new) == Concat([k \in 1..Len(s) |-> IF s[k] = old THEN new ELSE <<s[k]>>])

\* ---------------------------------------- the PyMuPDF flows' sanitizer
\* a normalisation that decomposes nothing
NFKDIdentity(c) == <<c>>

\* unicodedata.normalize('NFKD', c) of one character
NFKD(c) ==
  CASE c = "U+00E9" -> <<"e", "U+0301">>
    [] c = "U+00A0" -> <<" ">>
    [] c = "U+FB01" -> <<"f", "i">>
    [] OTHER -> <<c>>

IsAscii(c) == c \notin NonAsciiChars

\* unicodedata.normalize('NFKD', title).encode('ascii', 'ignore').decode('utf-8')
NormalizeTitle(title) ==
  SelectSeq(Concat([k \in 1..Len(title) |-> NFKD(title[k])]), IsAscii)

IsSpace(c) == c \in AsciiSpaces

\* re.sub(r'\s+', '_', s): every maximal run of whitespace becomes one
\* underscore: its first character is replaced, the others are dropped
CollapseSpaces(s) ==
  LET marked == [j \in 1..Len(s) |->
                   IF ~IsSpace(s[j]) THEN s[j]
                   ELSE IF j > 1 /\ IsSpace(s[j - 1]) THEN "dropped" ELSE "_"]
  IN  SelectSeq(marked, LAMBDA c : c # "dropped")

IsSafeChar(c) ==
  c \in {"a", "b", "c", "d", "e", "f", "g", "h", "i", "j", "k", "l", "m",
         "n", "o", "p", "q", "r", "s", "t", "u", "v", "w", "x", "y", "z",
         "A", "B", "C", "D", "E", "F", "G", "H", "I", "J", "K", "L", "M",
         "N", "O", "P", "Q", "R", "S", "T", "U", "V", "W", "X", "Y", "Z",
         "0", "1", "2", "3", "4", "5", "6", "7", "8", "9", "_", "-"}

\* a sanitizer that deletes nothing
RemoveNothing(s) == s

\* re.sub(r'[^a-zA-Z0-9_\-]', '', s)
RemoveUnsafe(s) == SelectSeq(s, IsSafeChar)

\* str.strip(c) for a one-character c: from the first to the last character
\* that is not c
Strip(s, c) ==
  LET keep == {j \in 1..Len(s) : s[j] # c}
  IN  IF keep = {} THEN <<>>
      ELSE SubSeq(s, CHOOSE j \in keep : \A m \in keep : j <= m,
                     CHOOSE j \in keep : \A m \in keep : j >= m)

\* the slice bound of safe_title[:90]
TitleLimit == 90

\* s[:n]
Truncate(s, n) == SubSeq(s, 1, Min(Len(s), n))

\* the four assignments to safe_title
SafeTitle(title) ==
  Truncate(Strip(RemoveUnsafe(CollapseSpaces(NormalizeTitle(title))), "_"), TitleLimit)

Digit(d) == <<"0", "1", "2", "3", "4", "5", "6", "7", "8", "9">>[d + 1]

RECURSIVE Decimal(_)
\* str(n) for n >= 0
Decimal(n) == IF n < 10 THEN <<Digit(n)>> ELSE Decimal(n \div 10) \o <<Digit(n % 10)>>

RECURSIVE ZeroPad(_, _)
\* the format specification 0<w>d: zeros on the left up to a minimum width w
ZeroPad(s, w) == IF Len(s) >= w THEN s ELSE ZeroPad(<<"0">> \o s, w)

\* the minimum field width of the format specification ":04d"
PageNumberWidth == 4

\* a page number token without zero padding
PageNumberUnpadded(start_page_index) ==
  <<"P", "a", "g", "e", "_">> \o Decimal(start_page_index + 1)

\* f"Page_{start_page_index + 1:04d}"
PageNumberStr(start_page_index) ==
  <<"P", "a", "g", "e", "_">> \o ZeroPad(Decimal(start_page_index + 1), PageNumberWidth)

\* f"{page_number_str}_{safe_title}", the filename without its ".pdf"
SafeFilename(title, start_page_index) ==
  PageNumberStr(start_page_index) \o <<"_">> \o SafeTitle(title)

\* ---------------------------------- the PyPDF2 flows' filename computations
\* title.replace(' ', '_').replace('/', '-')
DirectFilename(title) == Replace(Replace(title, " ", <<"_">>), "/", <<"-">>)

\* title.replace(' ', '_').replace('/', '-').replace(':', '')
ContentFilename(title) == Replace(DirectFilename(title), ":", <<>>)

\* ------------------------------------------------------------- the flows
\* the four splitting scripts
SplitFlows == {"direct", "content_based", "parts_chapters", "final"}
\* the two scripts that use PyMuPDF and guard against empty sections
PyMuPDFFlows == {"parts_chapters", "final"}
RegexFlows == {"content_based", "parts_chapters", "final"}

\* heading texts as the scans and the outline deliver them
FlowTitles == {<<"a", " ", "b">>, <<"a", "_", "b">>}

VARIABLES
  flow,          \* which script runs
  pc,            \* its position: "open", "extract", "scan", "split", "done"
  pageCount,     \* len(reader.pages) / len(doc)
  doc,           \* the page texts the scan has read so far, in page order
  candidates,    \* the heading occurrences found, in discovery order
  split_points,  \* split_points (regex flows) / bookmark_data (bookmark flow)
  i,             \* the loop variable of the running loop
  written,       \* the output files opened for writing, in order
  skipped,       \* the sections reported as "Skipping empty section"
  dialog         \* the message box shown at the end, "none" before

splitVars == <<flow, pc, pageCount, doc, candidates, split_points, i, written, skipped, dialog>>

VARIABLES
  in_title,      \* the sanitizer's input: a section title
  in_start,      \* the sanitizer's input: the section's start_page_index
  out_filename   \* the filename computed from them, <<>> before

sanVars == <<in_title, in_start, out_filename>>

VARIABLES
  pdf_files,      \* the number of PDF files of the folder, named 1..pdf_files
  cur,            \* the file the batch loop is at
  pdf_file_part,  \* the upload the local variable is bound to, 0 when unbound
  remote,         \* the uploads the model service stores
  deletes,        \* the delete_file calls made: the upload and the iteration
  bookmark_data,  \* the mapping parsed from the model's answer, as its items
  added,          \* the outline entries added to the writer, in order
  saved,          \* per file: "untouched", "rewritten" or "partial"
  attempted,      \* the files an iteration was started for, in order
  response        \* the model's answer for the current file: "none" before
                  \* it arrives, then "not_json" or "json"

llmVars ==
  <<pdf_files, cur, pdf_file_part, remote, deletes, bookmark_data, added, saved, attempted,
    response>>

vars == <<splitVars, sanVars, llmVars>>

\* ----------------------------------------------------- the bookmark flow
Leaf(t, r) == [kind |-> "leaf", title |-> t, page_obj |-> r, items |-> <<>>]
\* an outline item that is neither a list nor a (title, page) pair
BadItem == [kind |-> "bad", title |-> <<>>, page_obj |-> 0, items |-> <<>>]
List(its) == [kind |-> "list", title |-> <<>>, page_obj |-> 0, items |-> its]

\* A page object is named by its place in the page tree; n names an object
\* that is not among the n pages of the document.
Leaves(n) == {Leaf(t, r) : t \in FlowTitles, r \in 0..n}

\* the items reader.outline may hold at its top level
OutlineItems(n) ==
  Leaves(n) \cup {BadItem, List(<<>>)}
    \cup {List(<<a>>) : a \in Leaves(n)}
    \cup {List(<<a, List(<<b>>)>>) : a \in Leaves(n), b \in Leaves(n)}

\* PdfReader.get_page_number: the index of the page, -1 when the object is
\* not a page of the document
get_page_number(page_obj, n) == IF page_obj \in 0..(n - 1) THEN page_obj ELSE -1

RECURSIVE extract_bookmarks(_, _)
\* extract_bookmarks(bookmarks_list, extracted_data): what it appends
extract_bookmarks(bookmarks_list, n) ==
  IF bookmarks_list = <<>> THEN <<>>
  ELSE LET item == Head(bookmarks_list)
           this == CASE item.kind = "list" -> extract_bookmarks(item.items, n)
                     [] item.kind = "leaf" ->
                          <<[title |-> item.title,
                             start_page |-> get_page_number(item.page_obj, n)]>>
                     [] OTHER -> <<>>
       IN  this \o extract_bookmarks(Tail(bookmarks_list), n)

\* x placed behind the last element whose key is not greater
InsertSorted(sorted, x) ==
  LET k == Cardinality({j \in 1..Len(sorted) : sorted[j].start_page <= x.start_page})
  IN  SubSeq(sorted, 1, k) \o <<x>> \o SubSeq(sorted, k + 1, Len(sorted))

RECURSIVE SortByStartPage(_)
\* bookmark_data.sort(key=lambda x: x['start_page']): a stable sort
SortByStartPage(s) ==
  IF s = <<>> THEN <<>>
  ELSE InsertSorted(SortByStartPage(SubSeq(s, 1, Len(s) - 1)), s[Len(s)])

\* a final split point one page short of the end of the document
SentinelShort(n) == [title |-> <<"E", "N", "D">>, start_page |-> n - 1]

\* the end of the document as the final split point
Sentinel(n) == [title |-> <<"E", "N", "D">>, start_page |-> n]

\* ------------------------------------------------------- the regex flows
\* A line of a page's text: its stripped text, and whether the flow's heading
\* pattern matches it (the pattern itself is an input of the model).
HeadingLines == {[text |-> t, match |-> TRUE] : t \in FlowTitles}
BodyLine == [text |-> <<"e">>, match |-> FALSE]
\* the texts a page may have: no text, no heading, a heading in its first
\* line, a heading after a body line, two headings
PageTexts ==
  {<<>>, <<BodyLine>>} \cup {<<h>> : h \in HeadingLines}
    \cup {<<BodyLine, h>> : h \in HeadingLines}
    \cup {<<h, g>> : h \in HeadingLines, g \in HeadingLines}
\* what reading a page gives: an exception, or its text
PageOutcomes == {[fails |-> TRUE, text |-> <<>>]} \cup {[fails |-> FALSE, text |-> t] : t \in PageTexts}

Headings(text) == SelectSeq(text, LAMBDA l : l.match)

\* the lines loop with its break: the first matching line of the page, if any
FirstMatch(text) == IF Headings(text) = <<>> THEN <<>> ELSE <<Head(Headings(text))>>

\* "if not split_points or split_points[-1]['start_page'] != i" in the PyMuPDF
\* flows; the content-based flow appends without a test
MayAppend(f, sp, page) ==
  f = "content_based" \/ sp = <<>> \/ sp[Len(sp)].start_page # page

\* a scan without the "break" and without the test of the last split point:
\* every heading line of the page becomes a split point
ScanAppendAll(f, sp, page, outcome) ==
  IF outcome.fails THEN sp
  ELSE sp \o [j \in 1..Len(Headings(outcome.text)) |->
               [title |-> Headings(outcome.text)[j].text, start_page |-> page]]

\* split_points after the scan of page number `page` that read `outcome`
ScanAppend(f, sp, page, outcome) ==
  IF outcome.fails \/ FirstMatch(outcome.text) = <<>> \/ ~MayAppend(f, sp, page)
  THEN sp
  ELSE Append(sp, [title |-> FirstMatch(outcome.text)[1].text, start_page |-> page])

\* ------------------------------------------------------ writing sections
\* "if end_page_index > start_page_index" in the PyMuPDF flows; the PyPDF2
\* flows write a file for every adjacent pair
WritesSection(f, start, end) == f \notin PyMuPDFFlows \/ end > start

\* range(start_page, end_page)
Range(start, end) == [k \in 1..(end - start) |-> start + k - 1]

\* reader.pages[page_num]: a negative index counts from the end, an index
\* outside [-n, n) raises IndexError
IndexOk(page_num, n) == -n <= page_num /\ page_num < n
PageAt(page_num, n) == IF page_num < 0 THEN page_num + n ELSE page_num

\* the pages copied into the section's file, in order
CopiedPages(f, start, end, n) ==
  IF f \in PyMuPDFFlows THEN Range(start, end)
  ELSE [k \in 1..(end - start) |-> PageAt(Range(start, end)[k], n)]

\* whether copying the pages raises
CopyRaises(f, start, end, n) ==
  f \notin PyMuPDFFlows /\ \E k \in 1..(end - start) : ~IndexOk(Range(start, end)[k], n)

PdfExt == <<".", "p", "d", "f">>

\* the filename of the section's file
OutputName(f, title, start) ==
  CASE f = "direct" -> DirectFilename(title) \o PdfExt
    [] f = "content_based" -> ContentFilename(title) \o PdfExt
    [] OTHER -> SafeFilename(title, start) \o PdfExt

\* how writing a file may end: written in full; an exception before the file
\* exists; an exception after the file was opened, leaving it incomplete
WriteOutcomes == {"ok", "not_created", "partial"}

\* ------------------------------------------------- the splitting scripts
SanIdle == in_title = <<>> /\ in_start = 0 /\ out_filename = <<>>

LlmIdle ==
  /\ pdf_files = 0 /\ cur = 0 /\ pdf_file_part = 0 /\ remote = {} /\ deletes = <<>>
  /\ bookmark_data = <<>> /\ added = <<>> /\ saved = <<>> /\ attempted = <<>>
  /\ response = "none"

Init ==
  /\ flow \in SplitFlows
  /\ pageCount \in 1..MaxPages
  /\ pc = "open"
  /\ doc = <<>> /\ candidates = <<>> /\ split_points = <<>>
  /\ i = 0 /\ written = <<>> /\ skipped = <<>> /\ dialog = "none"
  /\ SanIdle /\ LlmIdle

\* the run ends with a message box
Ends(message) == pc' = "done" /\ dialog' = message

\* fitz.open / open(input_pdf_path, 'rb') / PdfReader raise
OpenFails ==
  /\ pc = "open"
  /\ Ends("error")
  /\ UNCHANGED <<flow, pageCount, doc, candidates, split_points, i, written, skipped>>
  /\ UNCHANGED <<sanVars, llmVars>>

\* the document opens; the bookmark flow reads reader.outline
OpenDocument ==
  /\ pc = "open"
  /\ \/ flow \in RegexFlows /\ pc' = "scan" /\ dialog' = dialog
     \/ flow = "direct" /\ pc' = "extract" /\ dialog' = dialog
     \/ flow = "direct" /\ Ends("no_bookmarks")
  /\ UNCHANGED <<flow, pageCount, doc, candidates, split_points, i, written, skipped>>
  /\ UNCHANGED <<sanVars, llmVars>>

\* one item of the top-level loop of extract_bookmarks(all_bookmarks, bookmark_data)
ExtractItem ==
  /\ pc = "extract" /\ i < MaxBookmarks
  /\ \E item \in OutlineItems(pageCount) :
       LET found == extract_bookmarks(<<item>>, pageCount) IN
       /\ Len(split_points) + Len(found) <= MaxBookmarks
       /\ split_points' = split_points \o found
       /\ candidates' = candidates \o found
  /\ i' = i + 1
  /\ UNCHANGED <<flow, pc, pageCount, doc, written, skipped, dialog>>
  /\ UNCHANGED <<sanVars, llmVars>>

\* the outline is exhausted: the emptiness test, the sort and the END entry
FinishExtract ==
  /\ pc = "extract" /\ i > 0
  /\ IF split_points = <<>>
     THEN Ends("no_valid_bookmarks") /\ UNCHANGED <<split_points, i>>
     ELSE /\ split_points' = Append(SortByStartPage(split_points), Sentinel(pageCount))
          /\ pc' = "split" /\ i' = 0 /\ dialog' = dialog
  /\ UNCHANGED <<flow, pageCount, doc, candidates, written, skipped>>
  /\ UNCHANGED <<sanVars, llmVars>>

\* one iteration of the page scan
ScanPage ==
  /\ pc = "scan" /\ i < pageCount
  /\ \E outcome \in PageOutcomes :
       /\ doc' = Append(doc, outcome)
       /\ IF outcome.fails /\ flow = "content_based"
          THEN \* no try around extract_text: the outer handler ends the run
               Ends("error") /\ UNCHANGED <<candidates, split_points, i>>
          ELSE /\ split_points' = ScanAppend(flow, split_points, i, outcome)
               /\ candidates' = candidates \o
                    [j \in 1..Len(Headings(outcome.text)) |->
                       [title |-> Headings(outcome.text)[j].text, start_page |-> i]]
               /\ i' = i + 1
               /\ UNCHANGED <<pc, dialog>>
  /\ UNCHANGED <<flow, pageCount, written, skipped>>
  /\ UNCHANGED <<sanVars, llmVars>>

\* after the last page: the emptiness test and the end-of-document entry
FinishScan ==
  /\ pc = "scan" /\ i = pageCount
  /\ IF split_points = <<>>
     THEN Ends("no_titles") /\ UNCHANGED <<split_points, i>>
     ELSE /\ split_points' = Append(split_points, Sentinel(pageCount))
          /\ pc' = "split" /\ i' = 0 /\ dialog' = dialog
  /\ UNCHANGED <<flow, pageCount, doc, candidates, written, skipped>>
  /\ UNCHANGED <<sanVars, llmVars>>

\* one iteration of "for i in range(len(split_points) - 1)"
WriteSection ==
  /\ pc = "split" /\ i < Len(split_points) - 1
  /\ LET start == split_points[i + 1].start_page
         end == split_points[i + 2].start_page
         t == split_points[i + 1].title
     IN  IF ~WritesSection(flow, start, end)
         THEN /\ skipped' = Append(skipped, i)
              /\ i' = i + 1
              /\ UNCHANGED <<pc, dialog, written>>
         ELSE IF CopyRaises(flow, start, end, pageCount)
         THEN Ends("error") /\ UNCHANGED <<i, written, skipped>>
         ELSE \E outcome \in WriteOutcomes :
                /\ written' =
                     IF outcome = "not_created" THEN written
                     ELSE Append(written,
                            [path |-> OutputName(flow, t, start), title |-> t,
                             section |-> i, start_page |-> start, end_page |-> end,
                             pages |-> CopiedPages(flow, start, end, pageCount),
                             complete |-> outcome = "ok"])
                /\ IF outcome = "ok"
                   THEN i' = i + 1 /\ UNCHANGED <<pc, dialog>>
                   ELSE Ends("error") /\ i' = i
                /\ skipped' = skipped
  /\ UNCHANGED <<flow, pageCount, doc, candidates, split_points>>
  /\ UNCHANGED <<sanVars, llmVars>>

\* the loop is over: the "PDF splitting complete!" box
FinishSplit ==
  /\ pc = "split" /\ i = Len(split_points) - 1
  /\ Ends("success")
  /\ UNCHANGED <<flow, pageCount, doc, candidates, split_points, i, written, skipped>>
  /\ UNCHANGED <<sanVars, llmVars>>

Next ==
  \/ OpenFails \/ OpenDocument
  \/ ExtractItem \/ FinishExtract
  \/ ScanPage \/ FinishScan
  \/ WriteSection \/ FinishSplit

Spec == Init /\ [][Next]_vars

\* ------------------------------------------- the sanitizer on its own
\* the characters short titles are built from: a letter, a digit, a space, a
\* newline, the two characters kept besides letters and digits, a path
\* separator, and three non-ASCII characters
CoreChars == {"a", "7", " ", "U+000A", "_", "-", "/", "U+00E9", "U+4E2D", "U+00A0"}

Strings(chars, n) == UNION {[1..m -> chars] : m \in 0..n}

\* n letters
Letters(n) == [j \in 1..n |-> "a"]

\* every title of at most MaxLen core characters; every character of the
\* model between two letters; titles around the limit of 90 characters
TitleInputs ==
  Strings(CoreChars, MaxLen)
    \cup {<<"a", c, "b">> : c \in AsciiChars \cup NonAsciiChars}
    \cup {Letters(n) \o s : n \in {TitleLimit - 2, TitleLimit - 1, TitleLimit},
                            s \in Strings({"a", " ", "_", "/"}, 2)}

\* start pages around each change of the page number's width
StartPages == {0, 8, 9, 98, 99, 998, 999, 9998, 9999, 10000}

SplitIdle ==
  /\ pageCount = 0 /\ doc = <<>> /\ candidates = <<>> /\ split_points = <<>>
  /\ i = 0 /\ written = <<>> /\ skipped = <<>> /\ dialog = "none"

SanInit ==
  /\ flow \in PyMuPDFFlows
  /\ pc = "title"
  /\ in_title \in TitleInputs
  /\ in_start \in StartPages
  /\ out_filename = <<>>
  /\ SplitIdle /\ LlmIdle

\* the filename computation of one iteration of the PyMuPDF flows' split loop
Sanitize ==
  /\ pc = "title"
  /\ out_filename' = SafeFilename(in_title, in_start)
  /\ pc' = "named"
  /\ UNCHANGED <<flow, in_title, in_start>>
  /\ UNCHANGED <<pageCount, doc, candidates, split_points, i, written, skipped, dialog>>
  /\ UNCHANGED llmVars

SanNext == Sanitize

SanSpec == SanInit /\ [][SanNext]_vars

\* ------------------------------------------------ the bookmarking scripts
LlmFlows == {"gemini", "langchain"}

\* the items of a parsed answer: a page number per title, the titles distinct
\* (they are the keys of a dict), the numbers from below 1 to above pageCount
Items(n) == {[title |-> t, page_num |-> p] : t \in FlowTitles, p \in 0..(n + 1)}
Mappings(n) ==
  {<<>>} \cup {<<a>> : a \in Items(n)}
    \cup {m \in {<<a, b>> : a \in Items(n), b \in Items(n)} : m[1].title # m[2].title}

\* a range test that admits the index one past the last page
ValidIndexInclusive(page_index, n) == 0 <= page_index /\ page_index <= n

\* "0 <= page_index < len(reader.pages)"
ValidIndex(page_index, n) == 0 <= page_index /\ page_index < n

\* "page_index = page_num - 1"
PageIndex(page_num) == page_num - 1

\* the loop over bookmark_data.items(): the add_outline_entry calls it makes
OutlineEntries(items, n) ==
  SelectSeq([j \in 1..Len(items) |->
               [title |-> items[j].title, page_index |-> PageIndex(items[j].page_num)]],
            LAMBDA e : ValidIndex(e.page_index, n))

LlmInit ==
  /\ flow \in LlmFlows
  /\ pageCount \in 1..MaxPages
  /\ pdf_files \in 0..MaxDocs
  /\ flow = "langchain" => pdf_files = 1
  /\ pc = IF flow = "gemini" THEN "upload" ELSE "generate"
  /\ cur = 1 /\ pdf_file_part = 0 /\ remote = {} /\ deletes = <<>>
  /\ bookmark_data = <<>> /\ added = <<>>
  /\ saved = [j \in 1..pdf_files |-> "untouched"]
  /\ attempted = IF flow = "gemini" THEN <<>> ELSE <<1>>
  /\ response = "none"
  /\ dialog = "none"
  /\ doc = <<>> /\ candidates = <<>> /\ split_points = <<>>
  /\ i = 0 /\ written = <<>> /\ skipped = <<>>
  /\ SanIdle

\* an exception inside the try block: the batch script prints it and runs the
\* finally clause, the single-file script shows an error box
Raises == IF flow = "gemini" THEN pc' = "finally" /\ dialog' = dialog ELSE Ends("error")

\* "if not input_folder or not os.path.exists(input_folder)"
InvalidFolder ==
  /\ flow = "gemini" /\ pc = "upload" /\ attempted = <<>>
  /\ Ends("error")
  /\ UNCHANGED <<flow, pageCount, doc, candidates, split_points, i, written, skipped>>
  /\ UNCHANGED <<sanVars, llmVars>>

\* the start of an iteration of "for filename in pdf_files": genai.upload_file
UploadFile ==
  /\ pc = "upload" /\ cur <= pdf_files
  /\ attempted' = Append(attempted, cur)
  /\ response' = "none"
  /\ \/ /\ pdf_file_part' = cur /\ remote' = remote \cup {cur}
        /\ pc' = "generate"
     \/ /\ UNCHANGED <<pdf_file_part, remote>>
        /\ pc' = "finally"
  /\ UNCHANGED <<pdf_files, cur, deletes, bookmark_data, added, saved>>
  /\ UNCHANGED <<flow, pageCount, doc, candidates, split_points, i, written, skipped, dialog>>
  /\ UNCHANGED sanVars

\* the loop is over: the "Gemini bookmarking complete!" box
BatchDone ==
  /\ pc = "upload" /\ cur > pdf_files
  /\ Ends("success")
  /\ UNCHANGED <<flow, pageCount, doc, candidates, split_points, i, written, skipped>>
  /\ UNCHANGED <<sanVars, llmVars>>

\* the model call and json.loads of its answer
Generate ==
  /\ pc = "generate"
  /\ \/ Raises /\ bookmark_data' = bookmark_data /\ response' = response
     \/ \* the answer is not JSON
        /\ bookmark_data' = bookmark_data /\ response' = "not_json"
        /\ IF flow = "gemini" THEN pc' = "finally" /\ dialog' = dialog
           ELSE Ends("parse_error")
     \/ /\ bookmark_data' \in Mappings(pageCount) /\ response' = "json"
        /\ pc' = "bookmark" /\ dialog' = dialog
  /\ UNCHANGED <<pdf_files, cur, pdf_file_part, remote, deletes, added, saved, attempted>>
  /\ UNCHANGED <<flow, pageCount, doc, candidates, split_points, i, written, skipped>>
  /\ UNCHANGED sanVars

\* PdfReader(pdf_path), the copy of the pages and the loop over the items
AddBookmarks ==
  /\ pc = "bookmark"
  /\ \/ Raises /\ added' = added
     \/ /\ added' = OutlineEntries(bookmark_data, pageCount)
        /\ IF flow = "langchain" /\ added' = <<>>
           THEN \* "if bookmarks_added == 0"
                Ends("no_valid_bookmarks")
           ELSE pc' = "write" /\ dialog' = dialog
  /\ UNCHANGED <<pdf_files, cur, pdf_file_part, remote, deletes, bookmark_data, saved, attempted,
               response>>
  /\ UNCHANGED <<flow, pageCount, doc, candidates, split_points, i, written, skipped>>
  /\ UNCHANGED sanVars

\* open(path, 'wb') and writer.write
WriteFile ==
  /\ pc = "write"
  /\ \E outcome \in WriteOutcomes :
       /\ saved' = CASE outcome = "ok" -> [saved EXCEPT ![cur] = "rewritten"]
                     [] outcome = "partial" -> [saved EXCEPT ![cur] = "partial"]
                     [] OTHER -> saved
       /\ IF outcome # "ok" THEN Raises
          ELSE IF flow = "gemini" THEN pc' = "finally" /\ dialog' = dialog
          ELSE Ends("success")
  /\ UNCHANGED <<pdf_files, cur, pdf_file_part, remote, deletes, bookmark_data, added, attempted,
               response>>
  /\ UNCHANGED <<flow, pageCount, doc, candidates, split_points, i, written, skipped>>
  /\ UNCHANGED sanVars

\* "if 'pdf_file_part' in locals()"
DeletesUpload(part) == part # 0

\* the finally clause: the progress bar, then genai.delete_file; an exception
\* of delete_file leaves the function
Finally ==
  /\ pc = "finally"
  /\ IF ~DeletesUpload(pdf_file_part)
     THEN /\ pc' = "upload" /\ cur' = cur + 1
          /\ UNCHANGED <<remote, deletes>>
     ELSE /\ deletes' = Append(deletes, [file |-> pdf_file_part, iteration |-> cur])
          /\ \/ /\ remote' = remote \ {pdf_file_part}
                /\ pc' = "upload" /\ cur' = cur + 1
             \/ /\ remote' = remote
                /\ pc' = "crashed" /\ cur' = cur
  /\ bookmark_data' = <<>> /\ added' = <<>>
  /\ UNCHANGED <<pdf_files, pdf_file_part, saved, attempted, response>>
  /\ UNCHANGED <<flow, pageCount, doc, candidates, split_points, i, written, skipped, dialog>>
  /\ UNCHANGED sanVars

LlmNext ==
  \/ InvalidFolder \/ UploadFile \/ BatchDone
  \/ Generate \/ AddBookmarks \/ WriteFile \/ Finally

LlmSpec == LlmInit /\ [][LlmNext]_vars

\* =================================================================
\* Properties of the splitting flows (specification Spec)
\* =================================================================
Written == {written[j] : j \in 1..Len(written)}
CandidatePages == {candidates[j].start_page : j \in 1..Len(candidates)}
InRange(p) == 0 <= p /\ p < pageCount

\* C1: the sections a splitting flow writes out are, in emission order,
\* sorted by startPage, contiguous, non-overlapping, and each satisfies
\* 0 <= startPage < endPage <= pageCount.
C1_PartitionValid ==
  /\ \A j \in 1..Len(written) :
       /\ 0 <= written[j].start_page
       /\ written[j].start_page < written[j].end_page
       /\ written[j].end_page <= pageCount
  /\ \A j \in 1..(Len(written) - 1) :
       /\ written[j].start_page < written[j + 1].start_page
       /\ written[j].end_page = written[j + 1].start_page

\* the number of written sections whose range [start_page, end_page) holds p
Covering(p) ==
  Cardinality({j \in 1..Len(written) :
                 written[j].start_page <= p /\ p < written[j].end_page})

\* C2 as stated, on the runs whose candidates are all pages of the document:
\* when a flow has emitted its sections, the first starts at page 0, the last
\* ends at pageCount, and every page of [0, pageCount) is in exactly one of
\* them.
C2_FullCoverage ==
  (dialog = "success" /\ written # <<>> /\ \A p \in CandidatePages : InRange(p)) =>
    /\ written[1].start_page = 0
    /\ written[Len(written)].end_page = pageCount
    /\ \A p \in 0..(pageCount - 1) : Covering(p) = 1

\* C2 as amended: the first emitted section starts at the lowest candidate
\* page (which need not be page 0); when the flow has emitted its sections,
\* the last ends at pageCount, every index from that first page up to
\* pageCount lies in the range of exactly one emitted section, and the pages
\* before it lie in none.
C2_CoverageFromFirstCandidate ==
  /\ written # <<>> =>
       /\ written[1].start_page \in CandidatePages
       /\ \A p \in CandidatePages : written[1].start_page <= p
  /\ (dialog = "success" /\ written # <<>>) =>
       /\ written[Len(written)].end_page = pageCount
       /\ \A p \in written[1].start_page..(pageCount - 1) : Covering(p) = 1
       /\ \A p \in 0..(written[1].start_page - 1) : Covering(p) = 0

\* a finished run whose first section starts after page 0
C2_Witness ==
  /\ dialog = "success" /\ Len(written) >= 2
  /\ written[1].start_page > 0

\* the first candidate, in discovery order, on page p
FirstOnPage(p) ==
  candidates[CHOOSE j \in 1..Len(candidates) :
               /\ candidates[j].start_page = p
               /\ \A m \in 1..(j - 1) : candidates[m].start_page # p]

\* C3: when candidates share a page, only the first of them in input order
\* contributes a section boundary and title; the later ones produce no section
\* and no output file.
C3_FirstCandidatePerPage ==
  dialog = "success" =>
    \A p \in CandidatePages :
      InRange(p) =>
        LET onPage == SelectSeq(written, LAMBDA w : w.start_page = p)
        IN  Len(onPage) = 1 /\ onPage[1].title = FirstOnPage(p).title

\* C4: for an adjacent candidate pair with endPage <= startPage no output file
\* is written.
C4_DegenerateDropped ==
  \A w \in Written : ~(w.end_page <= w.start_page)

\* the scan of the document ran to its end (the document opened, and in the
\* content-based flow no page raised)
ScanCompleted ==
  \/ flow = "direct" /\ (split_points # <<>> \/ dialog \in {"no_bookmarks", "no_valid_bookmarks"})
  \/ /\ flow \in RegexFlows /\ Len(doc) = pageCount /\ pc # "scan"
     /\ ~(flow = "content_based" /\ \E j \in 1..Len(doc) : doc[j].fails)

NoSectionsDialogs == {"no_bookmarks", "no_valid_bookmarks", "no_titles"}

\* C5: when the candidate list is empty or every candidate is out of range,
\* the flow ends in the NoSectionsFound outcome: no output file is written, no
\* error is reported, and no section is emitted.
C5_NoCandidatesTerminal ==
  (ScanCompleted /\ \A p \in CandidatePages : ~InRange(p)) =>
    /\ written = <<>>
    /\ pc = "done" => dialog \in NoSectionsDialogs

\* C6: a candidate whose pageIndex is < 0 or >= pageCount never becomes a
\* section start or a section end: once the list is ready for splitting,
\* every entry but the end-of-document one is a page of the document, and no
\* page is read for an index outside [0, pageCount).
C6_OutOfRangeFiltered ==
  /\ pc \in {"split", "done"} =>
       \A j \in 1..(Len(split_points) - 1) : InRange(split_points[j].start_page)
  /\ \A w \in Written : \A j \in 1..Len(w.pages) :
       w.pages[j] = w.start_page + j - 1 /\ InRange(w.start_page + j - 1)

\* C10: two distinct emitted sections are never written to the same output
\* path.
C10_NoOutputCollision ==
  \A j \in 1..Len(written) : \A m \in 1..Len(written) :
    j # m => written[j].path # written[m].path

\* =================================================================
\* Properties of the bookmarking flows (specification LlmSpec)
\* =================================================================
\* the outline entries of the current file have been added to the writer
EntriesAdded ==
  \/ pc = "write"
  \/ pc \in {"finally", "done"} /\ cur <= pdf_files /\ saved[cur] # "untouched"

\* the items of the mapping whose page number is a page of the document
ValidItems ==
  {j \in 1..Len(bookmark_data) :
     1 <= bookmark_data[j].page_num /\ bookmark_data[j].page_num <= pageCount}

\* C7: an outline entry is added for a title exactly when
\* 1 <= pageNumber <= pageCount, at page index pageNumber - 1; an entry out of
\* that range adds nothing and does not keep any valid entry (several on one
\* page included) from being added.
C7_ValidEntriesAdded ==
  /\ EntriesAdded =>
       /\ \A t \in FlowTitles : \A idx \in -1..(pageCount + 1) :
            (\E j \in 1..Len(added) : added[j] = [title |-> t, page_index |-> idx])
              <=> (\E j \in ValidItems : bookmark_data[j] = [title |-> t, page_num |-> idx + 1])
       /\ Len(added) = Cardinality(ValidItems)
  /\ dialog = "no_valid_bookmarks" => ValidItems = {}

\* a file saved from a mapping whose first item is beyond the last page and
\* whose second item is valid
C7_Witness ==
  /\ EntriesAdded /\ saved[cur] = "rewritten"
  /\ Len(bookmark_data) = 2
  /\ bookmark_data[1].page_num > pageCount
  /\ bookmark_data[2].page_num \in 1..pageCount
  /\ Len(added) = 1

\* C8: in the batch flow a failure of any step on one document never keeps
\* the remaining documents from being processed: when the function is left,
\* every PDF of the folder was attempted once, in list order, and the
\* completion box was shown.
C8_BatchIsolation ==
  (flow = "gemini" /\ pc \in {"done", "crashed"} /\ dialog # "error") =>
    /\ attempted = [j \in 1..pdf_files |-> j]
    /\ dialog = "success"

\* the candidate a scanned page contributes when a failing page counts as a
\* page without heading: its first heading line, if it has one
PageCandidate(j) ==
  LET hs == {l \in 1..Len(doc[j].text) : doc[j].text[l].match}
  IN  IF doc[j].fails \/ hs = {} THEN <<>>
      ELSE <<[title |-> doc[j].text[CHOOSE l \in hs : \A m \in hs : l <= m].text,
              start_page |-> j - 1]>>
ExpectedPoints == Concat([j \in 1..Len(doc) |-> PageCandidate(j)])

\* C12: in the regex flows a page whose text extraction or matching fails
\* contributes no candidate and the scan goes on with the next page: the
\* split points are those of the same document with the failing pages read
\* as pages without heading, and the scan always reaches the last page.
C12_PageFailureIsolated ==
  (flow \in RegexFlows /\ doc # <<>>) =>
    IF pc = "scan" THEN split_points = ExpectedPoints
    ELSE /\ Len(doc) = pageCount
         /\ \/ ExpectedPoints = <<>> /\ split_points = <<>> /\ dialog = "no_titles"
            \/ /\ ExpectedPoints # <<>>
               /\ SubSeq(split_points, 1, Len(split_points) - 1) = ExpectedPoints
               /\ split_points[Len(split_points)].start_page = pageCount

\* C13: sections are written one at a time in ascending startPage order, a
\* section is started only after the file of the one before is completely
\* written, and when the writing of a section fails the files written before
\* it stay on disk unchanged, no later section is written and the failure
\* is reported.
C13_SequentialNoRollback ==
  /\ \A j \in 1..Len(written), m \in 1..Len(written) :
       j < m => /\ written[j].section < written[m].section
                /\ written[j].start_page <= written[m].start_page
                /\ written[j].complete
  /\ (written # <<>> /\ ~written[Len(written)].complete) =>
       /\ pc = "done" /\ dialog = "error"
       /\ \A j \in 1..(Len(written) - 1) : written[j].path # written[Len(written)].path

\* the file the model's answer at hand was given for
AnsweredFile == IF flow = "gemini" /\ pc \in {"upload", "done"} THEN cur - 1 ELSE cur

\* C14: when the model's answer for a document is not valid JSON, no outline
\* entry is added, no file is written or overwritten for that document, the
\* function is not left by an exception, the single-file flow ends, and the
\* batch flow goes on to the next document.
C14_UnparseableResponseSkipped ==
  response = "not_json" =>
    /\ added = <<>>
    /\ saved[AnsweredFile] = "untouched"
    /\ pc # "crashed"
    /\ flow = "langchain" => pc = "done"
    /\ (flow = "gemini" /\ pc = "done") => attempted = [j \in 1..pdf_files |-> j]

\* C16: at every point of the page scan of the three regex flows the split
\* points have strictly increasing start pages, each in [0, pageCount), at
\* most one per page; after the end-of-document entry (start_page =
\* pageCount) is appended every adjacent pair has endPage > startPage, and
\* the "Skipping empty section" branch is never taken.
C16_ScanInvariant ==
  flow \in RegexFlows =>
    /\ \A j \in 1..Len(split_points), m \in 1..Len(split_points) :
         j < m => split_points[j].start_page < split_points[m].start_page
    /\ \A j \in 1..Len(split_points) :
         /\ 0 <= split_points[j].start_page
         /\ split_points[j].start_page <= pageCount
         /\ split_points[j].start_page = pageCount => (pc # "scan" /\ j = Len(split_points))
    /\ pc = "split" =>
         (split_points # <<>> /\ split_points[Len(split_points)].start_page = pageCount)
    /\ skipped = <<>>
    /\ \A w \in Written : w.end_page > w.start_page

\* a PyMuPDF flow that met a page with two headings and a page that failed,
\* and wrote two sections
C16_Witness ==
  /\ flow \in PyMuPDFFlows
  /\ pc = "done" /\ dialog = "success"
  /\ \E j \in 1..Len(doc) : Len(Headings(doc[j].text)) = 2
  /\ \E j \in 1..Len(doc) : doc[j].fails
  /\ Len(written) = 2

\* C17: in the batch flow every uploaded file is deleted exactly once, at the
\* end of the iteration that uploaded it: each delete call names the upload
\* of its own iteration, no upload is named by two calls, and an upload is
\* without a delete call only while its iteration is still running.
C17_CleanupPairing ==
  flow = "gemini" =>
    /\ \A j \in 1..Len(deletes) : deletes[j].file = deletes[j].iteration
    /\ \A j \in 1..Len(deletes), m \in 1..Len(deletes) :
         j # m => deletes[j].file # deletes[m].file
    /\ \A f \in remote :
         \/ f = cur /\ pc \in {"generate", "bookmark", "write", "finally"}
         \/ \E j \in 1..Len(deletes) : deletes[j].file = f

\* =================================================================
\* Properties of the sanitizer (specification SanSpec)
\* =================================================================
PathSeparators == {"/", "\\"}
ControlChars == {"U+0000", "U+0009", "U+000A"}
FilenameAlphabet ==
  {"a", "b", "e", "f", "g", "i", "P", "Z", "_", "-"} \cup AsciiDigits

\* C9: for every title and start page the filename base of the PyMuPDF flows
\* is non-empty and holds only ASCII letters, digits, underscores and hyphens:
\* no path separator, no control character.
C9_FilenameSafe ==
  pc = "named" =>
    /\ out_filename # <<>>
    /\ \A j \in 1..Len(out_filename) :
         /\ out_filename[j] \in FilenameAlphabet
         /\ out_filename[j] \notin PathSeparators \cup ControlChars \cup NonAsciiChars

\* a title of a path separator and a non-ASCII character whose sanitized form
\* is empty
C9_Witness ==
  /\ pc = "named"
  /\ \E j \in 1..Len(in_title) : in_title[j] \in PathSeparators
  /\ \E j \in 1..Len(in_title) : in_title[j] \in NonAsciiChars
  /\ SafeTitle(in_title) = <<>>
  /\ Len(out_filename) = 10

\* the ASCII characters of a filename in code point order, the order in
\* which names are compared character by character
AsciiOrder ==
  <<"-", "0", "1", "2", "3", "4", "5", "6", "7", "8", "9",
    "A", "B", "C", "D", "E", "F", "G", "H", "I", "J", "K", "L", "M",
    "N", "O", "P", "Q", "R", "S", "T", "U", "V", "W", "X", "Y", "Z", "_",
    "a", "b", "c", "d", "e", "f", "g", "h", "i", "j", "k", "l", "m",
    "n", "o", "p", "q", "r", "s", "t", "u", "v", "w", "x", "y", "z">>
CodeRank == [c \in {AsciiOrder[r] : r \in 1..Len(AsciiOrder)} |->
               CHOOSE r \in 1..Len(AsciiOrder) : AsciiOrder[r] = c]

\* s sorts strictly before t: at the first position where they differ s has
\* the smaller character, or s is a proper prefix of t
LexLess(s, t) ==
  \E d \in 1..(Len(s) + 1) :
    /\ d <= Len(t)
    /\ \A j \in 1..(d - 1) : s[j] = t[j]
    /\ d <= Len(s) => CodeRank[s[d]] < CodeRank[t[d]]

RECURSIVE Power(_, _)
Power(b, e) == IF e = 0 THEN 1 ELSE b * Power(b, e - 1)

\* the titles of the section a filename is compared with
PeerTitles == {<<>>, <<"-">>, <<"7">>, <<"a">>, <<"a", " ", "b">>}
\* the filenames of the sections a filename is compared with
PeerFilenames ==
  {[start_page |-> b, filename |-> SafeFilename(t, b)] : b \in StartPages, t \in PeerTitles}

\* C11: for any two sections with start pages a < b and any titles, the
\* filename produced for a is lexicographically smaller than the filename
\* produced for b.
C11_DocumentOrder ==
  pc = "named" =>
    \A peer \in PeerFilenames :
      in_start < peer.start_page => LexLess(out_filename, peer.filename)

\* C11 (amended): the filename of the section with the smaller start page
\* sorts first whenever the larger page number startPage + 1 still fits the
\* four digits the token is padded to.
C11_DocumentOrderWithinWidth ==
  pc = "named" =>
    \A peer \in PeerFilenames :
      (in_start < peer.start_page /\ peer.start_page + 1 < Power(10, PageNumberWidth)) =>
        LexLess(out_filename, peer.filename)

\* page 9 named next to page 10: the padding decides the order
C11_Witness ==
  /\ pc = "named"
  /\ in_start = 8
  /\ SafeTitle(in_title) # <<>>
  /\ LexLess(out_filename, SafeFilename(<<"-">>, 9))
  /\ ~LexLess(PageNumberUnpadded(in_start), PageNumberUnpadded(9))

\* the claimed steps, each on the whole string
\* whitespace as \s matches it in a title
Whitespace == {" ", "U+0009", "U+000A", "U+00A0"}
\* each run of whitespace replaced by one underscore
RunsToUnderscore(s) ==
  Concat([j \in 1..Len(s) |->
            IF s[j] \notin Whitespace THEN <<s[j]>>
            ELSE IF j = 1 \/ s[j - 1] \notin Whitespace THEN <<"_">> ELSE <<>>])
\* every character that is not an ASCII letter, digit, underscore or hyphen deleted
KeepSafe(s) == SelectSeq(s, LAMBDA c : c \in {AsciiOrder[r] : r \in 1..Len(AsciiOrder)})
\* leading and trailing underscores trimmed
Trim(s) ==
  LET lead  == Cardinality({j \in 1..Len(s) : \A m \in 1..j : s[m] = "_"})
      trail == Cardinality({j \in 1..Len(s) : \A m \in j..Len(s) : s[m] = "_"})
  IN  IF lead = Len(s) THEN <<>> ELSE SubSeq(s, lead + 1, Len(s) - trail)
\* at most 90 characters
Cut(s) == IF Len(s) <= TitleLimit THEN s ELSE [j \in 1..TitleLimit |-> s[j]]
ClaimedComponent(s) == Cut(Trim(KeepSafe(RunsToUnderscore(s))))
\* Page_<n zero-padded to 4 digits>_
ClaimedToken(n) ==
  <<"P", "a", "g", "e", "_">>
    \o (IF n < 10000
        THEN <<Digit(n \div 1000), Digit((n \div 100) % 10), Digit((n \div 10) % 10), Digit(n % 10)>>
        ELSE Decimal(n))
    \o <<"_">>
\* compatibility decomposition followed by the removal of what is not ASCII
AsciiFold(s) ==
  Concat([j \in 1..Len(s) |->
            CASE s[j] = "U+00E9" -> <<"e">>
              [] s[j] = "U+FB01" -> <<"f", "i">>
              [] s[j] = "U+00A0" -> <<" ">>
              [] s[j] \in AsciiChars -> <<s[j]>>
              [] OTHER -> <<>>])

\* C15: for every title the title component of the PyMuPDF flows' filename
\* is the title with each run of whitespace replaced by one underscore, every
\* character other than ASCII letters, digits, underscore and hyphen deleted,
\* leading and trailing underscores trimmed, and cut to at most 90
\* characters; the base filename is Page_<startPage+1 padded to 4 digits>_
\* followed by that component.
C15_SanitizerResult ==
  pc = "named" =>
    out_filename = ClaimedToken(in_start + 1) \o ClaimedComponent(in_title)

\* C15 (amended): the same steps applied to the title after its NFKD
\* decomposition with the non-ASCII characters dropped.
C15_SanitizerResultNormalized ==
  pc = "named" =>
    out_filename = ClaimedToken(in_start + 1) \o ClaimedComponent(AsciiFold(in_title))

\* an accented letter next to a space: the letter's base survives
C15_Witness ==
  /\ pc = "named"
  /\ \E j \in 1..Len(in_title) : in_title[j] = "U+00E9"
  /\ \E j \in 1..Len(in_title) : in_title[j] = " "
  /\ \E j \in 1..Len(out_filename) : out_filename[j] = "e" /\ j > 5
  /\ Len(SafeTitle(in_title)) = MaxLen

TypeOK ==
  pc \in {"open", "extract", "scan", "split", "done", "title", "named",
          "upload", "generate", "bookmark", "write", "finally", "crashed"}
====
